---- MODULE Spec2Model ----
\* Model of linkedin_news_post/mongo_store.py: MongoDBBaseStore, a namespaced
\* key-value store over one MongoDB collection with a lagging vector index,
\* a synchronous text index and backend-driven TTL expiry.
EXTENDS Integers, Sequences, FiniteSets, TLC

\* ---------------------------------------------------------------------------
\* Bounds of the model
\* ---------------------------------------------------------------------------
MaxDocs == 2          \* number of put calls explored
MaxTime == 1          \* clock values 0..MaxTime (minutes)
MaxLimit == 2         \* search limit ranges over 1..MaxLimit
MaxOffset == 1        \* search offset ranges over 0..MaxOffset
MaxBatch == 3         \* longest batch explored
MaxCallers == 2       \* callers that run put() concurrently

\* get()/search() refresh window, minutes: self._compute_expiration(10)
RefreshWindow == 10

\* ---------------------------------------------------------------------------
\* Strings.  A Python str is a sequence of tokens; " " is the whitespace
\* token and "." the dot token, every other token is a run of other characters.
\* ---------------------------------------------------------------------------
SP == " "
DOT == "."

RECURSIVE LStrip(_)
LStrip(s) == IF s # <<>> /\ Head(s) = SP THEN LStrip(Tail(s)) ELSE s

RECURSIVE RStrip(_)
RStrip(s) ==
    IF s # <<>> /\ s[Len(s)] = SP THEN RStrip(SubSeq(s, 1, Len(s) - 1)) ELSE s

\* str.strip()
Strip(s) == RStrip(LStrip(s))

\* str.split(sep): the pieces between the separators, empty pieces included
RECURSIVE SplitFrom(_, _, _, _)
SplitFrom(s, sep, i, cur) ==
    IF i > Len(s) THEN <<cur>>
    ELSE IF s[i] = sep THEN <<cur>> \o SplitFrom(s, sep, i + 1, <<>>)
    ELSE SplitFrom(s, sep, i + 1, Append(cur, s[i]))

Split(s, sep) == SplitFrom(s, sep, 1, <<>>)

\* " ".join(results)
RECURSIVE Join(_)
Join(results) ==
    IF results = <<>> THEN <<>>
    ELSE IF Len(results) = 1 THEN results[1]
    ELSE results[1] \o <<SP>> \o Join(Tail(results))

\* the words of a text, as the text index and the embedding function see it
Words(s) == {s[i] : i \in {j \in 1..Len(s) : s[j] # SP /\ s[j] # DOT}}

\* ---------------------------------------------------------------------------
\* Values.  A value (a nested dict) is the set of its leaves, each leaf with
\* the path of dict keys leading to it; a leaf is a str or a number.
\* ---------------------------------------------------------------------------
StrLeaf(path, s) == [path |-> path, t |-> "str", s |-> s]
NumLeaf(path) == [path |-> path, t |-> "num", s |-> <<>>]

IsPrefix(p, q) == Len(p) <= Len(q) /\ SubSeq(q, 1, Len(p)) = p

\* isinstance(current, dict) and part in current, current being the node at path
HasPart(doc, path, part) ==
    \E l \in doc : Len(l.path) > Len(path) /\ IsPrefix(Append(path, part), l.path)

\* the inner loop of get_text_at_path: <<path>> of the node reached, <<>> for None
RECURSIVE Descend(_, _, _, _)
Descend(doc, parts, i, current) ==
    IF i > Len(parts) THEN <<current>>
    ELSE IF HasPart(doc, current, parts[i])
         THEN Descend(doc, parts, i + 1, Append(current, parts[i]))
         ELSE <<>>

\* the contribution of one field: <<text>> or <<>>
FieldText(doc, field) ==
    LET cur == Descend(doc, Split(field, DOT), 1, <<>>)
    IN IF cur = <<>> THEN <<>>
       ELSE LET ls == {l \in doc : l.path = cur[1] /\ l.t = "str"}
            IN IF ls = {} THEN <<>>
               ELSE LET l == CHOOSE x \in ls : TRUE
                    IN IF Strip(l.s) # <<>> THEN <<Strip(l.s)>> ELSE <<>>

RECURSIVE FieldTexts(_, _, _)
FieldTexts(doc, fields, i) ==
    IF i > Len(fields) THEN <<>>
    ELSE FieldText(doc, fields[i]) \o FieldTexts(doc, fields, i + 1)

get_text_at_path(doc, fields) == Join(FieldTexts(doc, fields, 1))

\* ---------------------------------------------------------------------------
\* Input domains
\* ---------------------------------------------------------------------------
ARTICLE == <<"content", DOT, "article">>
SUMMARY == <<"summary">>
ROOT == <<"$">>

PArticle == << <<"content">>, <<"article">> >>
PSummary == << <<"summary">> >>
PTag == << <<"tag">> >>

\* {"content": {"article": "derivatives margin"}}
ValA == {StrLeaf(PArticle, <<"derivatives", SP, "margin">>)}
\* {"content": {"article": " derivatives "}, "tag": "x"}
ValB == {StrLeaf(PArticle, <<SP, "derivatives", SP>>), StrLeaf(PTag, <<"x">>)}
\* {"content": {"article": "  "}, "summary": "margin"}
ValC == {StrLeaf(PArticle, <<SP, SP>>), StrLeaf(PSummary, <<"margin">>)}
\* {"content": 7}
ValD == {NumLeaf(<< <<"content">> >>)}

AllValues == {ValA, ValB, ValC, ValD}

NsArticles == <<"articles">>
NsDrafts == <<"articles", "drafts">>
NsNotes == <<"notes">>
AllNamespaces == {NsArticles, NsDrafts, NsNotes}

LogicalKeys == {"a1", "a2"}

\* str(uuid.uuid4()): the n-th key the store draws
UuidPool == <<"u1", "u2", "u3", "u4", "u5", "u6">>
Uuid(n) == UuidPool[n]

\* ---------------------------------------------------------------------------
\* Construction: MongoDBBaseStore.__init__
\* ---------------------------------------------------------------------------
\* index_config is <<>> for None, else <<dict>>; the dict's "embed" entry may be
\* missing, its "fields" entry is <<>> when missing
NoIndexConfig == <<>>
IndexConfig(embed, fields) == <<[embed |-> embed, fields |-> fields]>>

MakeConfig(ttl_support, index_config) ==
    [ttl_support |-> ttl_support, index_config |-> index_config]

\* if index_config and "embed" in index_config
semantic_enabled(c) == c.index_config # <<>> /\ c.index_config[1].embed

\* self._index_config.get("fields", ["$"]) if self._index_config else ["$"]
ConfigFields(c) ==
    IF c.index_config # <<>> /\ c.index_config[1].fields # <<>>
    THEN c.index_config[1].fields[1]
    ELSE <<ROOT>>

\* the embedding function handed in by the caller: a bag-of-words vector
Embed(text) == Words(text)

\* the backend's similarity score of a stored vector against the query vector
Similarity(qv, ev) == Cardinality(qv \cap ev)

\* ---------------------------------------------------------------------------
\* Documents of the collection
\* ---------------------------------------------------------------------------
ExpAbsent == [st |-> "absent", at |-> 0]      \* no "expiration" field
ExpNone == [st |-> "none", at |-> 0]          \* "expiration": None
ExpAt(t) == [st |-> "at", at |-> t]           \* "expiration": datetime

TtlNotProvided == [st |-> "not_provided", m |-> 0]
TtlNone == [st |-> "none", m |-> 0]
TtlMinutes(m) == [st |-> "minutes", m |-> m]

IndexNone == [st |-> "none", fields |-> <<>>]
IndexTrue == [st |-> "true", fields |-> <<>>]
IndexFalse == [st |-> "false", fields |-> <<>>]
IndexFields(fs) == [st |-> "fields", fields |-> fs]

\* an expiration that leaves the ttl out
compute_expiration_NoTtl(ttl, t) ==
    IF ttl.st = "none" THEN ExpNone ELSE ExpAt(t)

\* _compute_expiration(ttl), ttl a number or None, at clock t
compute_expiration(ttl, t) ==
    IF ttl.st = "none" THEN ExpNone ELSE ExpAt(t + ttl.m)

\* doc.get("expiration") is truthy
ExpTruthy(e) == e.st = "at"

\* doc.get("logical_key", doc["key"]); logical_key is <<>> when the field is
\* not in the (projected) document
KeyOf(d) == IF d.logical_key = <<>> THEN d.key ELSE d.logical_key[1]

\* _namespace_query: exact match on the whole list
namespace_query(d, ns) == d.namespace = ns

\* _namespace_prefix_query: namespace.i == part for every i of the prefix
namespace_prefix_query(d, prefix) ==
    \A i \in 1..Len(prefix) : i <= Len(d.namespace) /\ d.namespace[i] = prefix[i]

\* ---------------------------------------------------------------------------
\* State
\* ---------------------------------------------------------------------------
VARIABLES
    cfg,          \* the store's construction-time configuration
    collection,   \* the documents of self._collection
    uuids,        \* how many storage keys uuid4 has handed out
    now,          \* the clock, minutes
    vindex,       \* storage keys the (lagging) vector index has ingested
    last,         \* the last call made on the store, and what it returned
    inflight      \* per concurrent caller, how far its put() has come

vars == <<cfg, collection, uuids, now, vindex, last, inflight>>

\* last.ids: the storage keys of the documents behind a search's results;
\* last.nvec: how many of them the vector phase gave;
\* last.prev: whether the call before was a delete of the same namespace and key
NoCall == [kind |-> "none", ns |-> <<>>, key |-> "", arg |-> <<>>, res |-> <<>>,
           ids |-> <<>>, nvec |-> 0, raised |-> FALSE, prev |-> "none"]

NoAux == [ids |-> <<>>, nvec |-> 0, raised |-> FALSE]

Call(kind, ns, key, arg, res, aux) ==
    [kind |-> kind, ns |-> ns, key |-> key, arg |-> arg, res |-> res,
     ids |-> aux.ids, nvec |-> aux.nvec, raised |-> aux.raised,
     prev |-> IF last.kind = "delete" /\ last.ns = ns /\ last.key = key
              THEN "delete_same" ELSE "other"]

\* ---------------------------------------------------------------------------
\* put
\* ---------------------------------------------------------------------------
\* a put that embeds whatever the index argument says
PutDoc_IgnoresIndexFlag(c, unique_key, namespace, key, value, index, ttl, t) ==
    LET text == get_text_at_path(value, ConfigFields(c))
    IN [namespace |-> namespace,
        key |-> unique_key,
        logical_key |-> <<key>>,
        value |-> value,
        created |-> t,
        expiration |->
            IF ttl.st # "not_provided" /\ c.ttl_support
            THEN (IF ttl.st # "none" THEN compute_expiration(ttl, t) ELSE ExpNone)
            ELSE ExpAbsent,
        indexed |-> index.st,
        embedding |->
            IF semantic_enabled(c) /\ Strip(text) # <<>> THEN <<Embed(text)>> ELSE <<>>]

\* the document put() builds (lines 303-332)
\* a put that stores the expiration whether the store supports TTL or not
PutDoc_IgnoresTtlSupport(c, unique_key, namespace, key, value, index, ttl, t) ==
    [namespace |-> namespace,
     key |-> unique_key,
     logical_key |-> <<key>>,
     value |-> value,
     created |-> t,
     expiration |->
         IF ttl.st # "not_provided"
         THEN (IF ttl.st # "none" THEN compute_expiration(ttl, t) ELSE ExpNone)
         ELSE ExpAbsent,
     indexed |-> index.st,
     embedding |->
         IF index.st # "false" /\ semantic_enabled(c)
            /\ Strip(get_text_at_path(value, ConfigFields(c))) # <<>>
         THEN <<Embed(get_text_at_path(value, ConfigFields(c)))>>
         ELSE <<>>]

PutDoc(c, unique_key, namespace, key, value, index, ttl, t) ==
    LET fields == ConfigFields(c)
        text == get_text_at_path(value, fields)
    IN [namespace |-> namespace,
        key |-> unique_key,
        logical_key |-> <<key>>,
        value |-> value,
        created |-> t,
        expiration |->
            IF ttl.st # "not_provided" /\ c.ttl_support
            THEN (IF ttl.st # "none" THEN compute_expiration(ttl, t) ELSE ExpNone)
            ELSE ExpAbsent,
        indexed |-> index.st,
        embedding |->
            IF index.st # "false" /\ semantic_enabled(c) /\ Strip(text) # <<>>
            THEN <<Embed(text)>>
            ELSE <<>>]

\* an insert that replaces what is stored under the document's logical key
InsertOne_ReplacesLogicalKey(coll, doc) ==
    {d \in coll : ~(d.namespace = doc.namespace /\ d.logical_key = doc.logical_key)}
    \cup {doc}

\* insert_one(doc)
InsertOne(coll, doc) == coll \cup {doc}

\* a put that writes under the caller's key, replacing what is stored there
PutEff_Upsert(c, st, namespace, key, value, index, ttl, t) ==
    [coll |-> {d \in st.coll : ~(d.namespace = namespace /\ d.logical_key = <<key>>)}
              \cup {PutDoc(c, key, namespace, key, value, index, ttl, t)},
     n |-> st.n + 1,
     res |-> <<>>]

PutEff(c, st, namespace, key, value, index, ttl, t) ==
    [coll |-> InsertOne(st.coll,
                  PutDoc(c, Uuid(st.n + 1), namespace, key, value, index, ttl, t)),
     n |-> st.n + 1,
     res |-> <<>>]

\* what can go wrong in a put: nothing, self._embedding_fn raises, or
\* insert_one raises without having written the document
PutFaults == {"none", "embed", "insert"}

\* the exception leaves put(): the uuid4 it drew is lost, nothing is written
PutRaised(st) == [coll |-> st.coll, n |-> st.n + 1, res |-> <<>>, raised |-> TRUE]

\* a put that inserts the document first and adds the embedding afterwards
PutFaultEff_InsertsBeforeEmbedding(c, st, namespace, key, value, index, ttl, t, fault) ==
    LET doc == PutDoc(c, Uuid(st.n + 1), namespace, key, value, index, ttl, t)
    IN IF fault = "embed" /\ doc.embedding # <<>>
       THEN [coll |-> InsertOne(st.coll, [doc EXCEPT !.embedding = <<>>]),
             n |-> st.n + 1, res |-> <<>>, raised |-> TRUE]
       ELSE IF fault = "insert" THEN PutRaised(st)
       ELSE [coll |-> InsertOne(st.coll, doc), n |-> st.n + 1, res |-> <<>>,
             raised |-> FALSE]

\* put with its two calls that can raise: self._embedding_fn(text), reached
\* only when there is text to embed, and then self._collection.insert_one(doc)
PutFaultEff(c, st, namespace, key, value, index, ttl, t, fault) ==
    LET doc == PutDoc(c, Uuid(st.n + 1), namespace, key, value, index, ttl, t)
    IN IF fault = "embed" /\ doc.embedding # <<>> THEN PutRaised(st)
       ELSE IF fault = "insert" THEN PutRaised(st)
       ELSE [coll |-> InsertOne(st.coll, doc), n |-> st.n + 1, res |-> <<>>,
             raised |-> FALSE]

\* ---------------------------------------------------------------------------
\* get
\* ---------------------------------------------------------------------------
\* q = {**self._namespace_query(namespace), "key": key}
ExactQuery(d, namespace, key) == namespace_query(d, namespace) /\ d.key = key

Item(d) ==
    [value |-> d.value, key |-> KeyOf(d), namespace |-> d.namespace,
     created_at |-> d.created, updated_at |-> d.created]

\* a get that refreshes whether asked to or not
GetEff_RefreshesUnasked(c, st, namespace, key, refresh_ttl, t) ==
    LET m == {d \in st.coll : ExactQuery(d, namespace, key)}
    IN IF m = {} THEN [coll |-> st.coll, n |-> st.n, res |-> <<>>]
       ELSE LET doc == CHOOSE d \in m : TRUE
            IN IF c.ttl_support /\ ExpTruthy(doc.expiration)
               THEN LET new_exp == compute_expiration(TtlMinutes(RefreshWindow), t)
                        upd == [doc EXCEPT !.expiration = new_exp]
                    IN [coll |-> (st.coll \ {doc}) \cup {upd}, n |-> st.n,
                        res |-> <<Item(upd)>>]
               ELSE [coll |-> st.coll, n |-> st.n, res |-> <<Item(doc)>>]

\* a get whose refresh rewrites the creation time along with the expiration
GetEff_RefreshResetsCreated(c, st, namespace, key, refresh_ttl, t) ==
    LET m == {d \in st.coll : ExactQuery(d, namespace, key)}
    IN IF m = {} THEN [coll |-> st.coll, n |-> st.n, res |-> <<>>]
       ELSE LET doc == CHOOSE d \in m : TRUE
            IN IF refresh_ttl /\ c.ttl_support /\ ExpTruthy(doc.expiration)
               THEN LET new_exp == compute_expiration(TtlMinutes(RefreshWindow), t)
                        upd == [doc EXCEPT !.expiration = new_exp, !.created = t]
                    IN [coll |-> (st.coll \ {doc}) \cup {upd}, n |-> st.n,
                        res |-> <<Item(upd)>>]
               ELSE [coll |-> st.coll, n |-> st.n, res |-> <<Item(doc)>>]

GetEff(c, st, namespace, key, refresh_ttl, t) ==
    LET m == {d \in st.coll : ExactQuery(d, namespace, key)}
    IN IF m = {} THEN [coll |-> st.coll, n |-> st.n, res |-> <<>>]
       ELSE LET doc == CHOOSE d \in m : TRUE
            IN IF refresh_ttl /\ c.ttl_support /\ ExpTruthy(doc.expiration)
               THEN LET new_exp == compute_expiration(TtlMinutes(RefreshWindow), t)
                        upd == [doc EXCEPT !.expiration = new_exp]
                    IN [coll |-> (st.coll \ {doc}) \cup {upd}, n |-> st.n,
                        res |-> <<Item(upd)>>]
               ELSE [coll |-> st.coll, n |-> st.n, res |-> <<Item(doc)>>]

\* ---------------------------------------------------------------------------
\* delete
\* ---------------------------------------------------------------------------
\* a delete that matches on the logical key instead of the "key" field
DeleteEff_ByLogicalKey(st, namespace, key) ==
    LET m == {d \in st.coll : d.namespace = namespace /\ d.logical_key = <<key>>}
    IN IF m = {} THEN [coll |-> st.coll, n |-> st.n, res |-> <<>>]
       ELSE [coll |-> st.coll \ {CHOOSE d \in m : TRUE}, n |-> st.n, res |-> <<>>]

\* delete_one(q): removes one matching document, if any
DeleteEff(st, namespace, key) ==
    LET m == {d \in st.coll : ExactQuery(d, namespace, key)}
    IN IF m = {} THEN [coll |-> st.coll, n |-> st.n, res |-> <<>>]
       ELSE [coll |-> st.coll \ {CHOOSE d \in m : TRUE}, n |-> st.n, res |-> <<>>]

\* ---------------------------------------------------------------------------
\* The backend's query machinery
\* ---------------------------------------------------------------------------
\* the orders a backend may return equally ranked documents in
RECURSIVE Perms(_)
Perms(S) ==
    IF S = {} THEN {<<>>}
    ELSE UNION {{<<x>> \o p : p \in Perms(S \ {x})} : x \in S}

Rank(ord, k) == CHOOSE i \in 1..Len(ord) : ord[i] = k

\* documents by descending score sc[key], equal scores in the backend's order
Scored(S, sc, ord) == {[d |-> d, s |-> sc[d.key], r |-> Rank(ord, d.key)] : d \in S}

Best(P) == CHOOSE p \in P : \A q \in P : p.s > q.s \/ (p.s = q.s /\ p.r <= q.r)

RECURSIVE SortScored(_)
SortScoredFrom(P, best) == <<best.d>> \o SortScored(P \ {best})
SortScored(P) == IF P = {} THEN <<>> ELSE SortScoredFrom(P, Best(P))

SortDesc(S, sc, ord) == SortScored(Scored(S, sc, ord))

SeqToSet(q) == {q[i] : i \in 1..Len(q)}

\* cursor.skip(n) / $skip, cursor.limit(n) / $limit (n >= 1)
Skip(q, n) == SubSeq(q, n + 1, Len(q))
Limit(q, n) == SubSeq(q, 1, IF n < Len(q) THEN n ELSE Len(q))

\* filter is <<>> for None or {}, else a sequence of [path, v] entries, each
\* the constraint value.<k> == v
NoFilter == <<>>
FilterOn(path, v) == <<[path |-> path, v |-> v]>>

FilterMatch(d, filter) ==
    \A i \in 1..Len(filter) :
        \E l \in d.value : l.path = filter[i].path /\ l.t = "str" /\ l.s = filter[i].v

\* the words the text index on "value" holds for a document
TextWords(d) == UNION {Words(l.s) : l \in {x \in d.value : x.t = "str"}}

\* {"$text": {"$search": query}}: any term of the query occurs
TextMatch(d, query) == Words(query) \cap TextWords(d) # {}

\* {"$meta": "textScore"}
TextScore(d, query) == Cardinality(Words(query) \cap TextWords(d))

\* the $project stage of the vector pipeline (lines 189-197); _id stays, and
\* a field left out is absent from the projected document
ProjectVector(d, score) ==
    [namespace |-> d.namespace, key |-> d.key, logical_key |-> <<>>,
     value |-> d.value, created |-> d.created, expiration |-> ExpAbsent,
     score |-> <<score>>]

\* the projection of the text queries (lines 233-240, 272-274)
ProjectText(d, query) ==
    [namespace |-> d.namespace, key |-> d.key, logical_key |-> <<>>,
     value |-> d.value, created |-> d.created, expiration |-> ExpAbsent,
     score |-> IF query # <<>> THEN <<TextScore(d, query)>> ELSE <<>>]

SearchItem(pd) ==
    [namespace |-> pd.namespace, key |-> KeyOf(pd), value |-> pd.value,
     created_at |-> pd.created, updated_at |-> pd.created, score |-> pd.score]

\* the match part of the pipeline and of the text queries
PrefixFilterMatch(d, namespace_prefix, filter) ==
    namespace_prefix_query(d, namespace_prefix) /\ FilterMatch(d, filter)

\* self._collection.aggregate(pipeline): $search knnBeta k = limit over the
\* ingested vectors, $match, $sort on a field no document has (any order),
\* $skip, $limit, $project
\* the searchScore of every stored document against the query vector
SearchScores(coll, query_vector) ==
    [k \in {d.key : d \in coll} |->
        LET d == CHOOSE x \in coll : x.key = k
        IN IF d.embedding # <<>> THEN Similarity(query_vector, d.embedding[1]) ELSE 0]

ProjectVectorAll(page, sim) ==
    [i \in 1..Len(page) |-> ProjectVector(page[i], sim[page[i].key])]

\* the stages after $search: knn is what $search handed on
AfterSearchStage(coll, knn, sim, namespace_prefix, filter, limit, offset, vord) ==
    ProjectVectorAll(
        Limit(Skip(SortDesc({d \in SeqToSet(knn) :
                                PrefixFilterMatch(d, namespace_prefix, filter)},
                            [k \in {d.key : d \in coll} |-> 0], vord),
                   offset),
              limit),
        sim)

KnnStage(coll, vx, sim, limit, vord) ==
    Limit(SortDesc({d \in coll : d.key \in vx /\ d.embedding # <<>>}, sim, vord), limit)

AggregateWith(coll, vx, sim, namespace_prefix, filter, limit, offset, vord) ==
    AfterSearchStage(coll, KnnStage(coll, vx, sim, limit, vord), sim,
                     namespace_prefix, filter, limit, offset, vord)

\* a pipeline that asks for every neighbour and has no $limit stage
Aggregate_NoLimit(coll, vx, namespace_prefix, query, filter, limit, offset, vord) ==
    AggregateWith(coll, vx, SearchScores(coll, Embed(query)), namespace_prefix, filter,
                  Cardinality(coll), offset, vord)

Aggregate(coll, vx, namespace_prefix, query, filter, limit, offset, vord) ==
    AggregateWith(coll, vx, SearchScores(coll, Embed(query)), namespace_prefix, filter,
                  limit, offset, vord)

\* self._collection.find(q, projection).sort(textScore).skip(offset).limit(n)
\* the documents a text query matches
TextMatched(coll, namespace_prefix, query, filter) ==
    {d \in coll : /\ PrefixFilterMatch(d, namespace_prefix, filter)
                  /\ (query # <<>> => TextMatch(d, query))}

TextScores(coll, query) ==
    [k \in {d.key : d \in coll} |-> TextScore(CHOOSE x \in coll : x.key = k, query)]

ProjectTextAll(page, query) == [i \in 1..Len(page) |-> ProjectText(page[i], query)]

TextFind(coll, namespace_prefix, query, filter, n, offset, tord) ==
    ProjectTextAll(
        Limit(Skip(SortDesc(TextMatched(coll, namespace_prefix, query, filter),
                            TextScores(coll, query), tord),
                   offset),
              n),
        query)

\* ---------------------------------------------------------------------------
\* search
\* ---------------------------------------------------------------------------
\* update_one({"_id": doc["_id"]}, {"$set": {"expiration": new_exp}}); the
\* storage key stands for _id, both being unique per document
UpdateExpirationById(coll, id, new_exp) ==
    {IF d.key = id THEN [d EXCEPT !.expiration = new_exp] ELSE d : d \in coll}

\* the loop over the vector results (lines 206-223); acc is
\* [coll, results, ids, seen_keys], ids the _id of the document behind each result
RECURSIVE VectorLoop(_, _, _, _, _, _)
VectorLoop(c, docs, i, acc, refresh_ttl, t) ==
    IF i > Len(docs) THEN acc
    ELSE LET doc == docs[i]
             coll2 == IF refresh_ttl /\ c.ttl_support /\ ExpTruthy(doc.expiration)
                      THEN UpdateExpirationById(acc.coll, doc.key,
                               compute_expiration(TtlMinutes(RefreshWindow), t))
                      ELSE acc.coll
         IN VectorLoop(c, docs, i + 1,
                [coll |-> coll2,
                 results |-> Append(acc.results, SearchItem(doc)),
                 ids |-> Append(acc.ids, doc.key),
                 seen_keys |-> acc.seen_keys \cup {KeyOf(doc)}],
                refresh_ttl, t)

\* the loop over the fallback cursor (lines 247-262)
RECURSIVE FallbackLoop(_, _, _, _)
FallbackLoop(docs, i, acc, limit) ==
    IF i > Len(docs) THEN acc
    ELSE LET doc == docs[i]
             key_val == KeyOf(doc)
         IN IF key_val \in acc.seen_keys THEN FallbackLoop(docs, i + 1, acc, limit)
            ELSE LET acc2 == [coll |-> acc.coll,
                              results |-> Append(acc.results, SearchItem(doc)),
                              ids |-> Append(acc.ids, doc.key),
                              seen_keys |-> acc.seen_keys \cup {key_val}]
                 IN IF Len(acc2.results) >= limit THEN acc2
                    ELSE FallbackLoop(docs, i + 1, acc2, limit)

\* what the backend decides for one search call: the order of equally ranked
\* documents in the vector pipeline and in the text query, whether the
\* vector query raises OperationFailure (fail) and whether the text query
\* raises (tfail)
Oracles(keys) ==
    [vord : Perms(keys), tord : Perms(keys), fail : BOOLEAN, tfail : BOOLEAN]

\* the backends that keep one order of the documents for both queries and
\* answer the text query
SharedOrderOracles(keys) ==
    {[vord |-> p, tord |-> p, fail |-> f, tfail |-> FALSE] :
        p \in Perms(keys), f \in BOOLEAN}

\* the backends that return equally ranked documents in the order ord
FixedOrderOracles(ord, FS, TS) ==
    {[vord |-> ord, tord |-> ord, fail |-> f, tfail |-> tf] : f \in FS, tf \in TS}

\* the semantic branch (lines 165-263)
SearchResult(out, nvec) ==
    [coll |-> out.coll, results |-> out.results, ids |-> out.ids, nvec |-> nvec,
     raised |-> FALSE]

\* the exception of the text query leaves search(): no result, and the store
\* as the call left it so far
SearchRaised(coll) ==
    [coll |-> coll, results |-> <<>>, ids |-> <<>>, nvec |-> 0, raised |-> TRUE]

\* a search that returns the vector results alone
FallbackFill_VectorOnly(vec, namespace_prefix, query, filter, limit, offset, tord) ==
    SearchResult(vec, Len(vec.results))

\* lines 225-262: vec is what the vector phase left
FallbackFill(vec, namespace_prefix, query, filter, limit, offset, tord) ==
    SearchResult(
        IF Len(vec.results) < limit
        THEN FallbackLoop(TextFind(vec.coll, namespace_prefix, query, filter,
                                   limit - Len(vec.results), offset, tord),
                          1, vec, limit)
        ELSE vec,
        Len(vec.results))

\* the fallback query (lines 241-246) runs when the vector results are fewer
\* than limit, outside any try
FallbackOrRaise(vec, namespace_prefix, query, filter, limit, offset, orc) ==
    IF Len(vec.results) < limit /\ orc.tfail
    THEN SearchRaised(vec.coll)
    ELSE FallbackFill(vec, namespace_prefix, query, filter, limit, offset, orc.tord)

NoResults(coll) == [coll |-> coll, results |-> <<>>, ids |-> <<>>, seen_keys |-> {}]

\* a search that lets the exception of the vector query leave it
SemanticSearch_VectorFailureRaises(c, st, vx, namespace_prefix, query, filter, limit, offset, refresh_ttl, t, orc) ==
    IF orc.fail THEN SearchRaised(st.coll)
    ELSE FallbackOrRaise(
            VectorLoop(c,
                       Aggregate(st.coll, vx, namespace_prefix, query, filter,
                                 limit, offset, orc.vord),
                       1, NoResults(st.coll), refresh_ttl, t),
            namespace_prefix, query, filter, limit, offset, orc)

SemanticSearch(c, st, vx, namespace_prefix, query, filter, limit, offset, refresh_ttl, t, orc) ==
    FallbackOrRaise(
        VectorLoop(c,
                   IF orc.fail THEN <<>>
                   ELSE Aggregate(st.coll, vx, namespace_prefix, query, filter,
                                  limit, offset, orc.vord),
                   1, NoResults(st.coll), refresh_ttl, t),
        namespace_prefix, query, filter, limit, offset, orc)

\* the text-only branch (lines 265-292)
TextOnlyResults(coll, cursor) ==
    [coll |-> coll,
     results |-> [i \in 1..Len(cursor) |-> SearchItem(cursor[i])],
     ids |-> [i \in 1..Len(cursor) |-> cursor[i].key],
     nvec |-> 0,
     raised |-> FALSE]

TextOnlySearch(st, namespace_prefix, query, filter, limit, offset, orc) ==
    IF orc.tfail THEN SearchRaised(st.coll)
    ELSE TextOnlyResults(st.coll,
            TextFind(st.coll, namespace_prefix, query, filter, limit, offset, orc.tord))

SearchReturn(st, r) ==
    [coll |-> r.coll, n |-> st.n, res |-> r.results, ids |-> r.ids, nvec |-> r.nvec,
     raised |-> r.raised]

SearchEff(c, st, vx, namespace_prefix, query, filter, limit, offset, refresh_ttl, t, orc) ==
    SearchReturn(st,
        IF semantic_enabled(c)
        THEN SemanticSearch(c, st, vx, namespace_prefix, query, filter, limit,
                            offset, refresh_ttl, t, orc)
        ELSE TextOnlySearch(st, namespace_prefix, query, filter, limit, offset, orc))

\* ---------------------------------------------------------------------------
\* list_namespaces
\* ---------------------------------------------------------------------------
\* the characters of the namespace segments of the model
SegChars(seg) ==
    CASE seg = "articles" -> <<"a", "r", "t", "i", "c", "l", "e", "s">>
      [] seg = "drafts" -> <<"d", "r", "a", "f", "t", "s">>
      [] seg = "notes" -> <<"n", "o", "t", "e", "s">>

\* the order of the strings that occur in listed namespaces
StrOrder == <<"a", "c", "d", "e", "f", "i", "l", "n", "o", "r", "s", "t">>
StrRank(x) == CHOOSE i \in 1..Len(StrOrder) : StrOrder[i] = x

\* tuple < tuple, as Python compares tuples of str
RECURSIVE TupleLess(_, _)
TupleLess(a, b) ==
    IF a = <<>> THEN b # <<>>
    ELSE IF b = <<>> THEN FALSE
    ELSE IF Head(a) = Head(b) THEN TupleLess(Tail(a), Tail(b))
    ELSE StrRank(Head(a)) < StrRank(Head(b))

\* sorted(set)
RECURSIVE Sorted(_)
Sorted(S) ==
    IF S = {} THEN <<>>
    ELSE LET least == CHOOSE x \in S : \A y \in S \ {x} : TupleLess(x, y)
         IN <<least>> \o Sorted(S \ {least})

\* self._collection.distinct("namespace", q): "namespace" holds an array, and
\* distinct takes every element of an array field as a value of its own, so
\* the values are the segments (each a str) of the matching documents
Distinct(coll, prefix) ==
    UNION {SeqToSet(d.namespace) :
              d \in {x \in coll : prefix = <<>> \/ namespace_prefix_query(x, prefix)}}

\* seq[:n] and seq[-n:] (n >= 1) as Python slices them
SliceTo(q, n) ==
    IF n >= 0 THEN SubSeq(q, 1, IF n < Len(q) THEN n ELSE Len(q))
    ELSE SubSeq(q, 1, IF Len(q) + n > 0 THEN Len(q) + n ELSE 0)
SliceLast(q, n) == SubSeq(q, IF Len(q) - n + 1 > 1 THEN Len(q) - n + 1 ELSE 1, Len(q))

matches_suffix(ns, suffix) ==
    IF Len(ns) >= Len(suffix) THEN SliceLast(ns, Len(suffix)) = suffix ELSE FALSE

\* prefix and suffix are <<>> for None or (); max_depth is <<>> for None, else <<d>>;
\* a listed value ns is a str, so len, the slices and tuple(ns) work on its characters
list_namespaces(coll, prefix, suffix, max_depth, limit, offset) ==
    LET namespaces == {SegChars(seg) : seg \in Distinct(coll, prefix)}
        kept == IF suffix # <<>> THEN {ns \in namespaces : matches_suffix(ns, suffix)}
                ELSE namespaces
        cut == IF max_depth # <<>> THEN {SliceTo(ns, max_depth[1]) : ns \in kept}
               ELSE kept
        unique_namespaces == Sorted(cut)
    IN SubSeq(unique_namespaces, offset + 1,
              IF offset + limit < Len(unique_namespaces) THEN offset + limit
              ELSE Len(unique_namespaces))

ListEff(st, prefix, suffix, max_depth, limit, offset) ==
    [coll |-> st.coll, n |-> st.n,
     res |-> list_namespaces(st.coll, prefix, suffix, max_depth, limit, offset)]

\* ---------------------------------------------------------------------------
\* batch
\* ---------------------------------------------------------------------------
\* the ops of langgraph.store.base, and an object that is none of them; a
\* SearchOp carries what the backend decides while it runs (orc)
GetOp(namespace, key, refresh_ttl) ==
    [op |-> "GetOp", namespace |-> namespace, key |-> key, refresh_ttl |-> refresh_ttl]
SearchOp(namespace_prefix, query, filter, limit, offset, refresh_ttl, orc) ==
    [op |-> "SearchOp", namespace_prefix |-> namespace_prefix, query |-> query,
     filter |-> filter, limit |-> limit, offset |-> offset,
     refresh_ttl |-> refresh_ttl, orc |-> orc]
\* value is <<>> for None, else <<value>>
PutOp(namespace, key, value, index, ttl) ==
    [op |-> "PutOp", namespace |-> namespace, key |-> key, value |-> value,
     index |-> index, ttl |-> ttl]
MatchCondition(match_type, path) == [match_type |-> match_type, path |-> path]
ListNamespacesOp(match_conditions, max_depth, limit, offset) ==
    [op |-> "ListNamespacesOp", match_conditions |-> match_conditions,
     max_depth |-> max_depth, limit |-> limit, offset |-> offset]
OtherOp == [op |-> "Other"]

\* lines 386-393: the path of the last condition of the given type, <<>> for None
RECURSIVE LastPath(_, _, _, _)
LastPath(conds, match_type, i, found) ==
    IF i > Len(conds) THEN found
    ELSE LastPath(conds, match_type, i + 1,
                  IF conds[i].match_type = match_type THEN conds[i].path ELSE found)

\* an element of the list batch() returns: None, an Item, or a list
ResNone == [type |-> "none", v |-> <<>>]
ResOptional(r) ==
    [coll |-> r.coll, n |-> r.n,
     res |-> IF r.res = <<>> THEN ResNone ELSE [type |-> "item", v |-> r.res],
     raised |-> FALSE]
ResList(r) ==
    [coll |-> r.coll, n |-> r.n, res |-> [type |-> "list", v |-> r.res],
     raised |-> FALSE]
\* the list search() returns, or the exception that leaves it
ResSearch(r) ==
    [coll |-> r.coll, n |-> r.n, res |-> [type |-> "list", v |-> r.res],
     raised |-> r.raised]

\* a loop that hands every PutOp to put(), a None value included
Dispatch_PutsNone(c, vx, st, op, t) ==
    IF op.op = "GetOp"
    THEN ResOptional(GetEff(c, st, op.namespace, op.key, op.refresh_ttl, t))
    ELSE IF op.op = "SearchOp"
    THEN ResSearch(SearchEff(c, st, vx, op.namespace_prefix, op.query, op.filter,
                             op.limit, op.offset, op.refresh_ttl, t, op.orc))
    ELSE IF op.op = "PutOp"
    THEN ResOptional(PutEff(c, st, op.namespace, op.key,
                            IF op.value # <<>> THEN op.value[1] ELSE {},
                            op.index, op.ttl, t))
    ELSE IF op.op = "ListNamespacesOp"
    THEN ResList(ListEff(st, LastPath(op.match_conditions, "prefix", 1, <<>>),
                         LastPath(op.match_conditions, "suffix", 1, <<>>),
                         op.max_depth, op.limit, op.offset))
    ELSE [coll |-> st.coll, n |-> st.n, res |-> ResNone, raised |-> FALSE]

\* one turn of the loop of batch(): what the op returns and the store it leaves
Dispatch(c, vx, st, op, t) ==
    IF op.op = "GetOp"
    THEN ResOptional(GetEff(c, st, op.namespace, op.key, op.refresh_ttl, t))
    ELSE IF op.op = "SearchOp"
    THEN ResSearch(SearchEff(c, st, vx, op.namespace_prefix, op.query, op.filter,
                             op.limit, op.offset, op.refresh_ttl, t, op.orc))
    ELSE IF op.op = "PutOp"
    THEN ResOptional(
            IF op.value # <<>>
            THEN PutEff(c, st, op.namespace, op.key, op.value[1], op.index, op.ttl, t)
            ELSE DeleteEff(st, op.namespace, op.key))
    ELSE IF op.op = "ListNamespacesOp"
    THEN ResList(ListEff(st, LastPath(op.match_conditions, "prefix", 1, <<>>),
                         LastPath(op.match_conditions, "suffix", 1, <<>>),
                         op.max_depth, op.limit, op.offset))
    ELSE [coll |-> st.coll, n |-> st.n, res |-> ResNone, raised |-> FALSE]

\* an exception that leaves an op leaves batch(): no result list, and the
\* store as the ops so far left it
BatchRaised(r) == [coll |-> r.coll, n |-> r.n, res |-> <<>>, raised |-> TRUE]

RECURSIVE BatchLoop(_, _, _, _, _, _, _)
\* a loop that keeps only the results that are not None
BatchNext_SkipNone(c, vx, ops, i, r, results, t) ==
    IF r.raised THEN BatchRaised(r)
    ELSE BatchLoop(c, vx, ops, i + 1, [coll |-> r.coll, n |-> r.n],
                   IF r.res.type = "none" THEN results ELSE Append(results, r.res), t)

\* results.append(res), then the next op
BatchNext(c, vx, ops, i, r, results, t) ==
    IF r.raised THEN BatchRaised(r)
    ELSE BatchLoop(c, vx, ops, i + 1, [coll |-> r.coll, n |-> r.n],
                   Append(results, r.res), t)

\* a loop that an op of no known kind ends
BatchLoop_StopsAtUnknown(c, vx, ops, i, st, results, t) ==
    IF i > Len(ops) \/ ops[i].op = "Other"
    THEN [coll |-> st.coll, n |-> st.n, res |-> results, raised |-> FALSE]
    ELSE BatchNext(c, vx, ops, i, Dispatch(c, vx, st, ops[i], t), results, t)

BatchLoop(c, vx, ops, i, st, results, t) ==
    IF i > Len(ops) THEN [coll |-> st.coll, n |-> st.n, res |-> results, raised |-> FALSE]
    ELSE BatchNext(c, vx, ops, i, Dispatch(c, vx, st, ops[i], t), results, t)

BatchEff(c, vx, st, ops, t) == BatchLoop(c, vx, ops, 1, st, <<>>, t)

\* ---------------------------------------------------------------------------
\* The non-blocking forms: loop.run_in_executor(None, partial(self.f, ...)).
\* Each operator is the call the partial makes once the executor runs it.
\* ---------------------------------------------------------------------------
abatch(c, vx, st, ops, t) == BatchEff(c, vx, st, ops, t)

aget(c, st, namespace, key, refresh_ttl, t) == GetEff(c, st, namespace, key, refresh_ttl, t)

asearch(c, st, vx, namespace_prefix, query, filter, limit, offset, refresh_ttl, t, orc) ==
    SearchEff(c, st, vx, namespace_prefix, query, filter, limit, offset, refresh_ttl, t, orc)

\* a wrapper that does not hand the ttl on
aput_DropsTtl(c, st, namespace, key, value, index, ttl, t) ==
    PutEff(c, st, namespace, key, value, index, TtlNotProvided, t)

aput(c, st, namespace, key, value, index, ttl, t) ==
    PutEff(c, st, namespace, key, value, index, ttl, t)

adelete(st, namespace, key) == DeleteEff(st, namespace, key)

alist_namespaces(st, prefix, suffix, max_depth, limit, offset) ==
    ListEff(st, prefix, suffix, max_depth, limit, offset)

\* the outcome of a call as the caller and the store see it
Outcome(r, raised) == [coll |-> r.coll, n |-> r.n, res |-> r.res, raised |-> raised]

\* the partial of a pending non-blocking call, run by the executor
RunPartial(c, vx, st, form, ns, key, a, t) ==
    CASE form = "abatch" -> LET r == abatch(c, vx, st, a.ops, t) IN Outcome(r, r.raised)
      [] form = "aget" -> Outcome(aget(c, st, ns, key, a.refresh_ttl, t), FALSE)
      [] form = "asearch" ->
            LET r == asearch(c, st, vx, ns, a.query, a.filter, a.limit, a.offset,
                             a.refresh_ttl, t, a.orc)
            IN Outcome(r, r.raised)
      [] form = "aput" -> Outcome(aput(c, st, ns, key, a.value, a.index, a.ttl, t), FALSE)
      [] form = "adelete" -> Outcome(adelete(st, ns, key), FALSE)
      [] form = "alist_namespaces" ->
            Outcome(alist_namespaces(st, ns, a.suffix, a.max_depth, a.limit, a.offset),
                    FALSE)

\* ---------------------------------------------------------------------------
\* The calls a client makes, and the backend's own steps
\* ---------------------------------------------------------------------------
St == [coll |-> collection, n |-> uuids]

\* the callers that run put() concurrently, and a caller that is not in put()
Callers == 1..MaxCallers
NotCalling == [pc |-> "idle", doc |-> <<>>]

\* the caller has taken the result of its last call
Idle == last.kind = "none"

IssuedKeys == {Uuid(i) : i \in 1..uuids}

\* the keys a caller can name: its own logical keys and the keys search showed it
KeyInputs == LogicalKeys \cup IssuedKeys

Queries == {<<>>, <<"derivatives">>, <<"derivatives", SP, "margin">>}
Filters == {NoFilter, FilterOn(PTag, <<"x">>)}
TtlArgs == {TtlNotProvided, TtlNone, TtlMinutes(0), TtlMinutes(1)}
IndexArgs == {IndexNone, IndexTrue, IndexFalse, IndexFields(<<SUMMARY>>)}

Configs ==
    {MakeConfig(t, ic) :
        t \in BOOLEAN,
        ic \in {NoIndexConfig,
                IndexConfig(TRUE, << <<ARTICLE, SUMMARY>> >>),
                IndexConfig(TRUE, <<>>),
                IndexConfig(FALSE, << <<ARTICLE>> >>)}}

PutOver(NS, KS, VS, IS, TS) ==
    /\ Idle
    /\ \E namespace \in NS, key \in KS, value \in VS, index \in IS, ttl \in TS :
           /\ uuids < MaxDocs
           /\ \E r \in {PutEff(cfg, St, namespace, key, value, index, ttl, now)} :
                 /\ collection' = r.coll
                 /\ uuids' = r.n
                 /\ last' = Call("put", namespace, key,
                                 [value |-> value, index |-> index, ttl |-> ttl],
                                 r.res, NoAux)
           /\ UNCHANGED <<cfg, now, vindex, inflight>>

\* put() called while the embedding function or the backend may fail
PutFaultOver(NS, KS, VS, IS, TS, FS) ==
    /\ Idle
    /\ \E namespace \in NS, key \in KS, value \in VS, index \in IS, ttl \in TS,
          fault \in FS :
           /\ uuids < MaxDocs
           /\ \E r \in {PutFaultEff(cfg, St, namespace, key, value, index, ttl, now,
                                     fault)} :
                 /\ collection' = r.coll
                 /\ uuids' = r.n
                 /\ last' = Call("put", namespace, key,
                                 [value |-> value, index |-> index, ttl |-> ttl,
                                  fault |-> fault],
                                 r.res, [NoAux EXCEPT !.raised = r.raised])
           /\ UNCHANGED <<cfg, now, vindex, inflight>>

GetOver(NS, KS, RS) ==
    \* a caller may also read right after its delete returned
    /\ Idle \/ last.kind = "delete"
    /\ \E namespace \in NS, key \in KS, refresh_ttl \in RS :
           /\ Idle \/ (last.ns = namespace /\ last.key = key)
           /\ \E r \in {GetEff(cfg, St, namespace, key, refresh_ttl, now)} :
                 /\ collection' = r.coll
                 /\ last' = Call("get", namespace, key, [refresh_ttl |-> refresh_ttl],
                                 r.res, NoAux)
           /\ UNCHANGED <<cfg, uuids, now, vindex, inflight>>

DeleteOver(NS, KS) ==
    /\ Idle
    /\ \E namespace \in NS, key \in KS :
           /\ \E r \in {DeleteEff(St, namespace, key)} :
                 /\ collection' = r.coll
                 /\ last' = Call("delete", namespace, key, <<>>, r.res, NoAux)
           /\ UNCHANGED <<cfg, uuids, now, vindex, inflight>>

SearchOver(NS, QS, FS, LS, OS, RS, ORCS) ==
    /\ Idle
    /\ \E namespace_prefix \in NS, query \in QS, filter \in FS, limit \in LS,
          offset \in OS, refresh_ttl \in RS, orc \in ORCS :
           /\ \E r \in {SearchEff(cfg, St, vindex, namespace_prefix, query, filter,
                                    limit, offset, refresh_ttl, now, orc)} :
                 /\ collection' = r.coll
                 /\ last' = Call("search", namespace_prefix, "",
                                 [query |-> query, filter |-> filter, limit |-> limit,
                                  offset |-> offset, refresh_ttl |-> refresh_ttl,
                                  fail |-> orc.fail, tfail |-> orc.tfail],
                                 r.res,
                                 [ids |-> r.ids, nvec |-> r.nvec, raised |-> r.raised])
           /\ UNCHANGED <<cfg, uuids, now, vindex, inflight>>

ListOver(PS, SS, DS, LS, OS) ==
    /\ Idle
    /\ \E prefix \in PS, suffix \in SS, max_depth \in DS, limit \in LS, offset \in OS :
           /\ \E r \in {ListEff(St, prefix, suffix, max_depth, limit, offset)} :
                 /\ last' = Call("list_namespaces", prefix, "",
                                 [suffix |-> suffix, max_depth |-> max_depth,
                                  limit |-> limit, offset |-> offset],
                                 r.res, NoAux)
           /\ UNCHANGED <<cfg, collection, uuids, now, vindex, inflight>>

\* the sequences of at most n elements of S
SeqsUpTo(S, n) == UNION {[1..k -> S] : k \in 0..n}

PutCount(ops) == Cardinality({i \in 1..Len(ops) : ops[i].op = "PutOp" /\ ops[i].value # <<>>})

\* a non-blocking form hands its partial to the executor and awaits it; form
\* names the wrapper, a holds the arguments the partial binds
Pending(form, ns, key, a) ==
    [NoCall EXCEPT !.kind = "pending", !.ns = ns, !.key = key,
                   !.arg = [form |-> form, a |-> a]]

Submit(form, ns, key, a) ==
    /\ last' = Pending(form, ns, key, a)
    /\ UNCHANGED <<cfg, collection, uuids, now, vindex, inflight>>

APutOver(NS, KS, VS, IS, TS) ==
    /\ Idle
    /\ uuids < MaxDocs
    /\ \E namespace \in NS, key \in KS, value \in VS, index \in IS, ttl \in TS :
           Submit("aput", namespace, key, [value |-> value, index |-> index, ttl |-> ttl])

AGetOver(NS, KS, RS) ==
    /\ Idle
    /\ \E namespace \in NS, key \in KS, refresh_ttl \in RS :
           Submit("aget", namespace, key, [refresh_ttl |-> refresh_ttl])

ADeleteOver(NS, KS) ==
    /\ Idle
    /\ \E namespace \in NS, key \in KS : Submit("adelete", namespace, key, <<>>)

ASearchOver(NS, QS, FS, LS, OS, RS, ORCS) ==
    /\ Idle
    /\ \E namespace_prefix \in NS, query \in QS, filter \in FS, limit \in LS,
          offset \in OS, refresh_ttl \in RS, orc \in ORCS :
           Submit("asearch", namespace_prefix, "",
                  [query |-> query, filter |-> filter, limit |-> limit,
                   offset |-> offset, refresh_ttl |-> refresh_ttl, orc |-> orc])

AListOver(PS, SS, DS, LS, OS) ==
    /\ Idle
    /\ \E prefix \in PS, suffix \in SS, max_depth \in DS, limit \in LS, offset \in OS :
           Submit("alist_namespaces", prefix, "",
                  [suffix |-> suffix, max_depth |-> max_depth, limit |-> limit,
                   offset |-> offset])

ABatchOver(OPS, n) ==
    /\ Idle
    /\ \E ops \in SeqsUpTo(OPS, n) :
           /\ uuids + PutCount(ops) <= MaxDocs
           /\ Submit("abatch", <<>>, "", [ops |-> ops])

\* the executor runs the partial, and the awaiting coroutine resumes with its
\* result or its exception
Resolve ==
    /\ last.kind = "pending"
    /\ \E r \in {RunPartial(cfg, vindex, St, last.arg.form, last.ns, last.key,
                             last.arg.a, now)} :
           /\ collection' = r.coll
           /\ uuids' = r.n
           /\ last' = [last EXCEPT !.kind = last.arg.form, !.res = r.res,
                                    !.raised = r.raised]
    /\ UNCHANGED <<cfg, now, vindex, inflight>>

\* put() run by concurrent callers, each on its own thread: one step up to the
\* finished doc (lines 303-331), one step for insert_one (line 333)
PutBeginOver(CS, NS, KS, VS, IS, TS) ==
    \E caller \in CS :
        /\ inflight[caller].pc = "idle"
        /\ uuids < MaxDocs
        /\ \E namespace \in NS, key \in KS, value \in VS, index \in IS, ttl \in TS :
               inflight' = [inflight EXCEPT ![caller] =
                   [pc |-> "built",
                    doc |-> <<PutDoc(cfg, Uuid(uuids + 1), namespace, key, value,
                                     index, ttl, now)>>]]
        /\ uuids' = uuids + 1
        /\ UNCHANGED <<cfg, collection, now, vindex, last>>

PutInsert ==
    \E caller \in Callers :
        /\ inflight[caller].pc = "built"
        /\ collection' = InsertOne(collection, inflight[caller].doc[1])
        /\ inflight' = [inflight EXCEPT ![caller].pc = "done"]
        /\ UNCHANGED <<cfg, uuids, now, vindex, last>>

PutReturn ==
    \E caller \in Callers :
        /\ inflight[caller].pc = "done"
        /\ inflight' = [inflight EXCEPT ![caller] = NotCalling]
        /\ UNCHANGED <<cfg, collection, uuids, now, vindex, last>>

\* the caller takes the result
Return ==
    /\ ~Idle
    /\ last.kind # "pending"
    /\ last' = NoCall
    /\ UNCHANGED <<cfg, collection, uuids, now, vindex, inflight>>

\* the clock advances
Tick ==
    /\ Idle
    /\ now < MaxTime
    /\ now' = now + 1
    /\ UNCHANGED <<cfg, collection, uuids, vindex, last, inflight>>

\* the backend's TTL monitor (the index on "expiration", expireAfterSeconds=0,
\* line 100) purges a document whose expiration has passed
Expire ==
    /\ Idle
    /\ cfg.ttl_support
    /\ \E d \in collection :
        /\ d.expiration.st = "at"
        /\ d.expiration.at <= now
        /\ collection' = collection \ {d}
    /\ UNCHANGED <<cfg, uuids, now, vindex, last, inflight>>

\* the search index ingests a stored embedding, some time after the insert
\* ("Atlas Search indexes are updated asynchronously", lines 81-82)
IndexSync ==
    /\ Idle
    /\ \E d \in collection :
        /\ d.embedding # <<>>
        /\ d.key \notin vindex
        /\ vindex' = vindex \cup {d.key}
    /\ UNCHANGED <<cfg, collection, uuids, now, last, inflight>>

BatchOver(OPS) ==
    /\ Idle
    /\ \E ops \in SeqsUpTo(OPS, MaxBatch) :
           /\ uuids + PutCount(ops) <= MaxDocs
           /\ \E r \in {BatchEff(cfg, vindex, St, ops, now)} :
                 /\ collection' = r.coll
                 /\ uuids' = r.n
                 /\ last' = Call("batch", <<>>, "", [ops |-> ops], r.res,
                                 [ids |-> <<>>, nvec |-> 0, raised |-> r.raised])
           /\ UNCHANGED <<cfg, now, vindex, inflight>>

InitOver(CS) ==
    /\ cfg \in CS
    /\ collection = {}
    /\ uuids = 0
    /\ now = 0
    /\ vindex = {}
    /\ last = NoCall
    /\ inflight = [caller \in Callers |-> NotCalling]

\* ---------------------------------------------------------------------------
\* Spec: the key-value calls put, get and delete, with and without TTL support
\* ---------------------------------------------------------------------------
KvConfigs == {MakeConfig(t, NoIndexConfig) : t \in BOOLEAN}
KvNamespaces == {NsArticles, NsDrafts}

Put == PutOver(KvNamespaces, LogicalKeys, {ValA, ValB}, {IndexNone},
               {TtlNotProvided, TtlMinutes(1)})
Get == GetOver(KvNamespaces, KeyInputs, BOOLEAN)
Delete == DeleteOver(KvNamespaces, KeyInputs)

Init == InitOver(KvConfigs)

Next == Put \/ Get \/ Delete \/ Return

Spec == Init /\ [][Next]_vars

\* ---------------------------------------------------------------------------
\* SpecSearch: puts, the lagging vector index and search on a store built with
\* semantic search enabled
\* ---------------------------------------------------------------------------
SearchConfigs == {MakeConfig(FALSE, IndexConfig(TRUE, << <<ARTICLE, SUMMARY>> >>))}

SearchNamespaces == {NsArticles, NsDrafts}

SearchPut == PutOver(SearchNamespaces, {"a1"}, {ValA, ValB}, {IndexNone},
                     {TtlNotProvided})
Search == SearchOver(SearchNamespaces, Queries, Filters, 1..MaxLimit, 0..MaxOffset,
                     {FALSE}, SharedOrderOracles(IssuedKeys))

InitSearch == InitOver(SearchConfigs)

NextSearch == SearchPut \/ Search \/ IndexSync \/ Return

SpecSearch == InitSearch /\ [][NextSearch]_vars

\* ---------------------------------------------------------------------------
\* SpecIndex: puts of every kind of value and index argument, under every
\* index configuration
\* ---------------------------------------------------------------------------
IndexConfigs == {c \in Configs : ~c.ttl_support}

IndexPut == PutOver({NsArticles}, {"a1"}, AllValues, IndexArgs, {TtlNotProvided})
IndexGet == GetOver({NsArticles}, IssuedKeys, {FALSE})
IndexDelete == DeleteOver({NsArticles}, IssuedKeys)

InitIndex == InitOver(IndexConfigs)

NextIndex == IndexPut \/ IndexGet \/ IndexDelete \/ IndexSync \/ Return

SpecIndex == InitIndex /\ [][NextIndex]_vars

\* ---------------------------------------------------------------------------
\* SpecBatch: batches of gets, puts, deletes, searches, listings and foreign
\* objects on a text-only store
\* ---------------------------------------------------------------------------
BatchConfigs == {MakeConfig(FALSE, NoIndexConfig)}

\* the backend returns equally ranked documents in the order of their insertion
InsertionOrder == [i \in 1..MaxDocs |-> Uuid(i)]

\* the storage key the caller of a batch has seen: that of the first record
BatchKeys == IssuedKeys \cap {Uuid(1)}

BatchOps ==
    {GetOp(NsArticles, k, FALSE) : k \in {"a1"} \cup BatchKeys}
    \cup {PutOp(NsArticles, "a1", <<v>>, IndexNone, TtlNotProvided) : v \in {ValA, ValB}}
    \cup {PutOp(NsArticles, k, <<>>, IndexNone, TtlNotProvided) : k \in BatchKeys}
    \cup {SearchOp(NsArticles, <<"derivatives">>, NoFilter, 2, 0, FALSE,
                   [vord |-> InsertionOrder, tord |-> InsertionOrder, fail |-> FALSE,
                    tfail |-> FALSE])}
    \cup {ListNamespacesOp(<<>>, <<>>, 2, 0)}
    \cup {OtherOp}

Batch == BatchOver(BatchOps)

InitBatch == InitOver(BatchConfigs)

NextBatch == Batch \/ Return

SpecBatch == InitBatch /\ [][NextBatch]_vars

\* ---------------------------------------------------------------------------
\* SpecTtl: expirations, their refresh and the backend's purge, with and
\* without TTL support, over a store with semantic search
\* ---------------------------------------------------------------------------
TtlConfigs ==
    {MakeConfig(t, IndexConfig(TRUE, << <<ARTICLE, SUMMARY>> >>)) : t \in BOOLEAN}

\* ttl of put(): not given, None, and a negative, a zero and a positive number
TtlInputs == {TtlNotProvided, TtlNone, TtlMinutes(-1), TtlMinutes(0), TtlMinutes(1)}

TtlPut == PutOver({NsArticles}, {"a1"}, {ValA}, {IndexNone}, TtlInputs)
TtlGet == GetOver({NsArticles}, IssuedKeys, BOOLEAN)
\* the backend returns equally ranked documents in the order of their insertion
TtlSearch == SearchOver({NsArticles}, {<<"derivatives">>}, {NoFilter}, {2}, {0},
                        BOOLEAN,
                        FixedOrderOracles(InsertionOrder, BOOLEAN, {FALSE}))

InitTtl == InitOver(TtlConfigs)

NextTtl == TtlPut \/ TtlGet \/ TtlSearch \/ IndexSync \/ Tick \/ Expire \/ Return

SpecTtl == InitTtl /\ [][NextTtl]_vars

\* ---------------------------------------------------------------------------
\* SpecFail: search over a backend whose vector query and whose text query
\* may raise, with and without semantic search
\* ---------------------------------------------------------------------------
FailConfigs ==
    {MakeConfig(FALSE, ic) :
        ic \in {NoIndexConfig, IndexConfig(TRUE, << <<ARTICLE, SUMMARY>> >>)}}

FailPut == PutOver({NsArticles}, {"a1"}, {ValA, ValB}, {IndexNone}, {TtlNotProvided})
FailSearch == SearchOver({NsArticles}, {<<"derivatives">>, <<"margin">>}, {NoFilter},
                         1..MaxLimit, 0..MaxOffset, {FALSE}, Oracles(IssuedKeys))

InitFail == InitOver(FailConfigs)

NextFail == FailPut \/ FailSearch \/ IndexSync \/ Return

SpecFail == InitFail /\ [][NextFail]_vars

\* ---------------------------------------------------------------------------
\* SpecList: list_namespaces over records under three namespaces
\* ---------------------------------------------------------------------------
ListConfigs == {MakeConfig(FALSE, NoIndexConfig)}

ListPut == PutOver(AllNamespaces, {"a1"}, {ValA}, {IndexNone}, {TtlNotProvided})
ListDelete == DeleteOver(AllNamespaces, IssuedKeys)
List == ListOver({<<>>, NsArticles}, {<<>>, <<"drafts">>}, {<<>>, <<1>>},
                 1..MaxLimit, 0..MaxOffset)

InitList == InitOver(ListConfigs)

NextList == ListPut \/ ListDelete \/ List \/ Return

SpecList == InitList /\ [][NextList]_vars

\* ---------------------------------------------------------------------------
\* SpecAsync: the non-blocking forms, on a text-only store with TTL support
\* whose text query may raise
\* ---------------------------------------------------------------------------
AsyncConfigs == {MakeConfig(TRUE, NoIndexConfig)}

AsyncOrcs == FixedOrderOracles(InsertionOrder, {FALSE}, BOOLEAN)

AsyncOps ==
    {GetOp(NsArticles, "a1", FALSE),
     PutOp(NsArticles, "a1", <<ValB>>, IndexNone, TtlMinutes(1))}
    \cup {SearchOp(NsArticles, <<"derivatives">>, NoFilter, 2, 0, FALSE, orc) :
             orc \in AsyncOrcs}

APut == APutOver({NsArticles}, {"a1"}, {ValA}, {IndexNone}, {TtlNotProvided, TtlMinutes(1)})
AGet == AGetOver({NsArticles}, IssuedKeys, BOOLEAN)
ADelete == ADeleteOver({NsArticles}, IssuedKeys)
ASearch == ASearchOver({NsArticles}, {<<"derivatives">>}, {NoFilter}, {2}, {0}, {FALSE},
                       AsyncOrcs)
AList == AListOver({<<>>}, {<<>>}, {<<>>}, {2}, {0})
ABatch == ABatchOver(AsyncOps, 2)

InitAsync == InitOver(AsyncConfigs)

NextAsync ==
    APut \/ AGet \/ ADelete \/ ASearch \/ AList \/ ABatch \/ Resolve \/ Return

SpecAsync == InitAsync /\ [][NextAsync]_vars

\* ---------------------------------------------------------------------------
\* SpecConcurrent: callers that put under one namespace and logical key at
\* the same time
\* ---------------------------------------------------------------------------
ConcurrentConfigs == {MakeConfig(FALSE, NoIndexConfig)}

PutBegin == PutBeginOver(Callers, {NsArticles}, {"a1"}, {ValA, ValB}, {IndexNone},
                         {TtlNotProvided})

InitConcurrent == InitOver(ConcurrentConfigs)

NextConcurrent == PutBegin \/ PutInsert \/ PutReturn \/ Tick

SpecConcurrent == InitConcurrent /\ [][NextConcurrent]_vars

\* ---------------------------------------------------------------------------
\* SpecAll: put, get, delete, search, list_namespaces and batch on one
\* semantic store with TTL support, under a moving clock
\* ---------------------------------------------------------------------------
AllConfigs == {MakeConfig(TRUE, IndexConfig(TRUE, << <<ARTICLE, SUMMARY>> >>))}

AllOrcs == FixedOrderOracles(InsertionOrder, {FALSE}, {FALSE})

AllOps ==
    {PutOp(NsArticles, "a1", <<ValB>>, IndexNone, TtlMinutes(1))}
    \cup {PutOp(NsArticles, k, <<>>, IndexNone, TtlNotProvided) : k \in BatchKeys}

AllPut == PutOver({NsArticles}, {"a1"}, {ValA}, {IndexNone}, {TtlMinutes(1)})
AllGet == GetOver({NsArticles}, IssuedKeys, {TRUE})
AllDelete == DeleteOver({NsArticles}, IssuedKeys)
AllSearch == SearchOver({NsArticles}, {<<"derivatives">>}, {NoFilter}, {2}, {0}, {TRUE},
                        AllOrcs)
AllList == ListOver({<<>>}, {<<>>}, {<<>>}, {2}, {0})
AllBatch == BatchOver(AllOps)

InitAll == InitOver(AllConfigs)

NextAll ==
    AllPut \/ AllGet \/ AllDelete \/ AllSearch \/ AllList \/ AllBatch
    \/ IndexSync \/ Tick \/ Return

SpecAll == InitAll /\ [][NextAll]_vars

\* ---------------------------------------------------------------------------
\* SpecNs: puts, alone and in batches, under a namespace with an empty segment
\* ---------------------------------------------------------------------------
NsConfigs == {MakeConfig(FALSE, NoIndexConfig)}

NsBlank == <<"articles", "">>

NsInputs == {NsArticles, NsBlank}

NsOps ==
    {PutOp(ns, "a1", <<ValA>>, IndexNone, TtlNotProvided) : ns \in NsInputs}
    \cup {GetOp(ns, k, FALSE) : ns \in NsInputs, k \in BatchKeys}

NsPut == PutOver(NsInputs, {"a1"}, {ValA, ValB}, {IndexNone}, {TtlNotProvided})
NsGet == GetOver(NsInputs, IssuedKeys, {FALSE})
NsDelete == DeleteOver(NsInputs, IssuedKeys)
NsBatch == BatchOver(NsOps)

InitNs == InitOver(NsConfigs)

NextNs == NsPut \/ NsGet \/ NsDelete \/ NsBatch \/ Return

SpecNs == InitNs /\ [][NextNs]_vars

\* ---------------------------------------------------------------------------
\* SpecPutFail: puts whose embedding function or insert may raise, on a
\* semantic store, with the reads that would show a partial record
\* ---------------------------------------------------------------------------
PutFailConfigs == {MakeConfig(FALSE, IndexConfig(TRUE, << <<ARTICLE, SUMMARY>> >>))}

PutFailPut == PutFaultOver({NsArticles, NsDrafts}, {"a1"}, {ValA, ValD},
                           {IndexNone, IndexFalse}, {TtlNotProvided}, PutFaults)
PutFailGet == GetOver({NsArticles, NsDrafts}, IssuedKeys, {FALSE})
PutFailSearch == SearchOver({NsArticles}, {<<"derivatives">>}, {NoFilter}, {2}, {0},
                            {FALSE}, FixedOrderOracles(InsertionOrder, {FALSE}, {FALSE}))
PutFailList == ListOver({<<>>}, {<<>>}, {<<>>}, {2}, {0})

InitPutFail == InitOver(PutFailConfigs)

NextPutFail ==
    PutFailPut \/ PutFailGet \/ PutFailSearch \/ PutFailList \/ IndexSync \/ Return

SpecPutFail == InitPutFail /\ [][NextPutFail]_vars

\* ---------------------------------------------------------------------------
\* Properties of put, get and delete
\* ---------------------------------------------------------------------------
\* the stored records a caller wrote under (ns, k)
WrittenUnder(coll, ns, k) == {d \in coll : d.namespace = ns /\ d.logical_key = <<k>>}

PutStep == last.kind = "none" /\ last'.kind = "put"
DeleteStep == last.kind = "none" /\ last'.kind = "delete"

\* C1: while records written under (ns, k) are in the store (put, and neither
\* deleted nor expired), get(ns, k) returns a record, and its value is one of
\* the values written under (ns, k).
C1_GetReturnsWritten ==
    last.kind = "get" =>
        LET w == WrittenUnder(collection, last.ns, last.key)
        IN w # {} => /\ Len(last.res) = 1
                     /\ last.res[1].value \in {d.value : d \in w}

\* C2: delete(ns, k) removes exactly one of the records stored under exact
\* namespace ns and logical key k when there is one, and leaves the store
\* unchanged when there is none.
C2_DeleteRemovesOne ==
    [][DeleteStep =>
        LET w == WrittenUnder(collection, last'.ns, last'.key)
        IN IF w # {} THEN \E d \in w : collection' = collection \ {d}
           ELSE collection' = collection]_vars

\* C3: a get(ns, k) made right after delete(ns, k) returns absent.
C3_GetAfterDeleteAbsent ==
    (last.kind = "get" /\ last.prev = "delete_same") => last.res = <<>>

\* C3 happens: a get that follows the delete of a key the store had issued, the
\* record of that key being gone
C3_Witness ==
    /\ last.kind = "get"
    /\ last.prev = "delete_same"
    /\ last.key \in IssuedKeys
    /\ \A d \in collection : d.key # last.key
    /\ collection # {}
    /\ last.res = <<>>

\* C4: a put adds exactly one record, under a storage key no stored record
\* has, holding the namespace, logical key and value of the call, and leaves
\* every record already stored as it was.
C4_PutAppendsFresh ==
    [][PutStep =>
        \E d \in collection' :
            /\ d \notin collection
            /\ collection' = collection \cup {d}
            /\ \A e \in collection : e.key # d.key
            /\ d.namespace = last'.ns
            /\ d.logical_key = <<last'.key>>
            /\ d.value = last'.arg.value]_vars

\* C4 happens: after a put, two records of the same namespace and logical key
\* hold different values under different storage keys
C4_Witness ==
    /\ last.kind = "put"
    /\ \E d, e \in collection :
        /\ d.namespace = e.namespace
        /\ d.logical_key = e.logical_key
        /\ d.key # e.key
        /\ d.value # e.value
        /\ e.value = last.arg.value

\* ---------------------------------------------------------------------------
\* Properties of search in semantic mode
\* ---------------------------------------------------------------------------
\* the stored record behind a result
RecordOf(id) == CHOOSE d \in collection : d.key = id

\* C5: a semantic search returns at most limit results, vector results and
\* fallback results together.
C5_AtMostLimit ==
    (last.kind = "search" /\ semantic_enabled(cfg)) => Len(last.res) <= last.arg.limit

\* C5 happens: a search filled its limit of two with one vector result and one
\* fallback result
C5_Witness ==
    /\ last.kind = "search"
    /\ semantic_enabled(cfg)
    /\ last.arg.limit = 2
    /\ last.nvec = 1
    /\ Len(last.res) = 2

\* C6: no two results of a semantic search stem from records that share a
\* logical key (stated for the searches that give a text query).
C6_NoDuplicateLogicalKeys ==
    (last.kind = "search" /\ semantic_enabled(cfg) /\ last.arg.query # <<>>) =>
        \A i, j \in 1..Len(last.ids) :
            i < j => RecordOf(last.ids[i]).logical_key # RecordOf(last.ids[j]).logical_key

\* C7: with offset 0, when at least limit records match the namespace prefix,
\* the filter and the text query, a semantic search returns at least as many
\* results as the text-only search with the same arguments (stated for the
\* searches that give a text query).
C7_AtLeastTextOnly ==
    (/\ last.kind = "search"
     /\ semantic_enabled(cfg)
     /\ last.arg.query # <<>>
     /\ last.arg.offset = 0
     /\ Cardinality(TextMatched(collection, last.ns, last.arg.query, last.arg.filter))
            >= last.arg.limit)
    => \A orc \in SharedOrderOracles(IssuedKeys) :
          Len(last.res) >= Len(TextOnlySearch(St, last.ns, last.arg.query,
                                              last.arg.filter, last.arg.limit,
                                              last.arg.offset, orc).results)

\* the one record under the searched namespace, its text matching the query
ScenarioB(d) ==
    /\ last.kind = "search"
    /\ semantic_enabled(cfg)
    /\ last.arg.limit = 1
    /\ last.arg.offset = 0
    /\ last.arg.filter = NoFilter
    /\ d.namespace = last.ns
    /\ TextMatch(d, last.arg.query)
    /\ \A e \in collection : namespace_prefix_query(e, last.ns) => e = d

HasIndexableText(value) == Strip(get_text_at_path(value, ConfigFields(cfg))) # <<>>

\* C9: a stored record has an embedding exactly when the store has semantic
\* search enabled, the put that made it did not pass index=False, and the text
\* the configured field paths extract from its value is not blank.
C9_EmbeddingIff ==
    \A d \in collection :
        d.embedding # <<>> <=>
            (semantic_enabled(cfg) /\ d.indexed # "false" /\ HasIndexableText(d.value))

\* C9 happens: on a semantic store, of two records with the same value the one
\* put with index=False has no embedding and the other has one
C9_Witness ==
    /\ semantic_enabled(cfg)
    /\ \E d, e \in collection :
        /\ d.value = e.value
        /\ d.indexed = "false" /\ d.embedding = <<>>
        /\ e.indexed # "false" /\ e.embedding # <<>>

\* ---------------------------------------------------------------------------
\* Properties of batch
\* ---------------------------------------------------------------------------
BatchStep == last.kind = "none" /\ last'.kind = "batch"

AfterOp(r) == [coll |-> r.coll, n |-> r.n]

\* the store the i-th op of a batch runs on: the store left by the ops before it
RECURSIVE StoreBefore(_, _)
StoreBefore(ops, i) ==
    IF i = 1 THEN St
    ELSE AfterOp(Dispatch(cfg, vindex, StoreBefore(ops, i - 1), ops[i - 1], now))

\* C10: batch returns one result per op, the i-th being what the i-th op
\* returns when it runs on the store left by the ops before it, and leaves the
\* store the last op leaves.
C10_BatchInOrder ==
    [][BatchStep =>
        LET ops == last'.arg.ops
        IN /\ Len(last'.res) = Len(ops)
           /\ \A i \in 1..Len(ops) :
                last'.res[i] = Dispatch(cfg, vindex, StoreBefore(ops, i), ops[i], now).res
           /\ collection' = StoreBefore(ops, Len(ops) + 1).coll]_vars

\* C10 happens: in a batch on the empty store the search after the put finds
\* the record, and the listing after it names its namespace
C10_Witness ==
    /\ last.kind = "batch"
    /\ uuids = 1
    /\ Len(last.arg.ops) = 3
    /\ Len(last.res) = 3
    /\ last.arg.ops[1].op = "PutOp" /\ last.arg.ops[1].value # <<>>
    /\ last.arg.ops[2].op = "SearchOp" /\ Len(last.res[2].v) = 1
    /\ last.arg.ops[3].op = "GetOp" /\ last.res[3] = ResNone

\* ---------------------------------------------------------------------------
\* Properties of the ops of a batch
\* ---------------------------------------------------------------------------
\* the batch ends with a PutOp whose value is None
EndsWithPutNone(ops) ==
    /\ ops # <<>>
    /\ ops[Len(ops)].op = "PutOp"
    /\ ops[Len(ops)].value = <<>>

\* C11: a PutOp with value None at the end of a batch leaves the store that
\* delete(op.namespace, op.key) leaves when called on the store the earlier
\* ops left: no key is issued, no record is added, and its result is None.
C11_PutNoneIsDelete ==
    [][BatchStep /\ EndsWithPutNone(last'.arg.ops) =>
        LET ops == last'.arg.ops
            op == ops[Len(ops)]
            before == StoreBefore(ops, Len(ops))
        IN /\ collection' = DeleteEff(before, op.namespace, op.key).coll
           /\ collection' \subseteq before.coll
           /\ uuids' = before.n
           /\ last'.res[Len(ops)] = ResNone]_vars

\* C11 happens: the get of the batch found the record under the storage key,
\* and the PutOp with value None after it removed that record
C11_Witness ==
    /\ last.kind = "batch"
    /\ Len(last.arg.ops) = 2
    /\ last.arg.ops[1].op = "GetOp"
    /\ last.res[1].type = "item"
    /\ EndsWithPutNone(last.arg.ops)
    /\ last.arg.ops[2].key = last.arg.ops[1].key
    /\ last.arg.ops[2].namespace = last.arg.ops[1].namespace
    /\ \A d \in collection : d.key # last.arg.ops[2].key

\* seq without its i-th element
RemoveAt(seq, i) == SubSeq(seq, 1, i - 1) \o SubSeq(seq, i + 1, Len(seq))

\* C12: an op of no known kind gets None in its own slot, and the batch
\* without that op returns the other results and leaves the same store.
C12_UnknownOpIsNone ==
    [][BatchStep =>
        \A i \in 1..Len(last'.arg.ops) :
            last'.arg.ops[i] = OtherOp =>
                /\ Len(last'.res) = Len(last'.arg.ops)
                /\ last'.res[i] = ResNone
                /\ StoreBefore(last'.arg.ops, i + 1) = StoreBefore(last'.arg.ops, i)
                /\ BatchEff(cfg, vindex, St, RemoveAt(last'.arg.ops, i), now)
                     = [coll |-> collection', n |-> uuids',
                        res |-> RemoveAt(last'.res, i), raised |-> FALSE]]_vars

\* C12 happens: the unknown op stands between a put and the search that
\* finds the record the put wrote
C12_Witness ==
    /\ last.kind = "batch"
    /\ uuids = 1
    /\ Len(last.arg.ops) = 3
    /\ Len(last.res) = 3
    /\ last.arg.ops[1].op = "PutOp" /\ last.arg.ops[1].value # <<>>
    /\ last.arg.ops[2] = OtherOp /\ last.res[2] = ResNone
    /\ last.arg.ops[3].op = "SearchOp" /\ Len(last.res[3].v) = 1
    /\ Cardinality(collection) = 1

\* ---------------------------------------------------------------------------
\* Properties of expirations
\* ---------------------------------------------------------------------------
\* the record a put step inserts
Inserted == CHOOSE d \in collection' : d \notin collection

\* C13: with TTL support, put with ttl of m minutes stores now + m as the
\* expiration, put without ttl stores no expiration field, put with ttl None
\* stores expiration None; and the backend purges no record whose expiration
\* is absent or None.
C13_TtlThreeState ==
    [][/\ (PutStep /\ cfg.ttl_support =>
             /\ last'.arg.ttl.st = "minutes" =>
                    Inserted.expiration = ExpAt(now + last'.arg.ttl.m)
             /\ last'.arg.ttl.st = "not_provided" => Inserted.expiration = ExpAbsent
             /\ last'.arg.ttl.st = "none" => Inserted.expiration = ExpNone)
       /\ \A d \in collection :
             cfg.ttl_support /\ ~ExpTruthy(d.expiration) => d \in collection']_vars

\* C13 happens: a record put with ttl None is still stored after the clock
\* moved on, and the put of a ttl of one minute stored now + 1
C13_Witness ==
    /\ cfg.ttl_support
    /\ now >= 1
    /\ \E d \in collection : d.expiration = ExpNone /\ d.created < now
    /\ last.kind = "put"
    /\ last.arg.ttl = TtlMinutes(1)
    /\ \E d \in collection : d.expiration = ExpAt(now + 1) /\ d.created = now

\* C14: in a store built without TTL support no stored record has an
\* expiration field, whatever ttl its put was given and whatever get and
\* search were asked to refresh.
C14_NoTtlNoExpiration ==
    ~cfg.ttl_support => \A d \in collection : d.expiration = ExpAbsent

\* C14 happens: without TTL support a put was given a ttl of one minute, after
\* an earlier record had been stored
C14_Witness ==
    /\ ~cfg.ttl_support
    /\ last.kind = "put"
    /\ last.arg.ttl = TtlMinutes(1)
    /\ Cardinality(collection) = 2

\* C15: an expiration that a put stores as a timestamp, and an expiration that
\* a call changes to a timestamp, is later than the time of that call.
C15_ExpirationInFuture ==
    [][/\ (PutStep /\ ExpTruthy(Inserted.expiration) => Inserted.expiration.at > now)
       /\ \A d \in collection' :
             /\ ExpTruthy(d.expiration)
             /\ \E e \in collection : e.key = d.key /\ e.expiration # d.expiration
             => d.expiration.at > now]_vars

\* ---------------------------------------------------------------------------
\* Properties of a failing backend
\* ---------------------------------------------------------------------------
\* what the text query of a search returns for some order of equal scores
TextOnlyOutcomes(arg, ns) ==
    {TextOnlySearch(St, ns, arg.query, arg.filter, arg.limit, arg.offset,
                    [tord |-> p, tfail |-> FALSE]).results : p \in Perms(IssuedKeys)}

\* C16: in semantic mode a failing vector query does not fail the search,
\* which then returns what the text query returns for the whole limit; a
\* failing text query that the search runs fails the search, in semantic mode
\* and in text-only mode.
C16_VectorFailureFallsBack ==
    last.kind = "search" =>
        /\ semantic_enabled(cfg) /\ last.arg.fail /\ ~last.arg.tfail =>
                /\ ~last.raised
                /\ last.nvec = 0
                /\ last.res \in TextOnlyOutcomes(last.arg, last.ns)
        /\ semantic_enabled(cfg) /\ last.arg.fail /\ last.arg.tfail => last.raised
        /\ semantic_enabled(cfg) /\ ~last.arg.fail /\ last.arg.tfail =>
                last.raised \/ (last.nvec = last.arg.limit /\ Len(last.res) = last.nvec)
        /\ ~semantic_enabled(cfg) /\ last.arg.tfail => last.raised
        /\ ~last.arg.tfail => ~last.raised

\* C16 happens: the vector index holds a record, the vector query failed and
\* the search returned the records the text query found
C16_Witness ==
    /\ last.kind = "search"
    /\ semantic_enabled(cfg)
    /\ last.arg.fail /\ ~last.arg.tfail
    /\ vindex # {}
    /\ Len(last.res) = 2
    /\ ~last.raised

\* ---------------------------------------------------------------------------
\* Properties of construction
\* ---------------------------------------------------------------------------
\* C17: a store whose index configuration has no embedding function does not
\* exist: no call is ever made on it and it holds no record.
C17_InconsistentConfigRejected ==
    cfg.index_config # <<>> /\ ~cfg.index_config[1].embed =>
        /\ last.kind = "none"
        /\ collection = {}

\* ---------------------------------------------------------------------------
\* Properties of list_namespaces
\* ---------------------------------------------------------------------------
\* the namespace segments of the model in lexicographic order
SegOrder == <<"articles", "drafts", "notes">>
SegRank(x) == CHOOSE i \in 1..Len(SegOrder) : SegOrder[i] = x

RECURSIVE NamespaceLess(_, _)
NamespaceLess(a, b) ==
    IF a = <<>> THEN b # <<>>
    ELSE IF b = <<>> THEN FALSE
    ELSE IF Head(a) = Head(b) THEN NamespaceLess(Tail(a), Tail(b))
    ELSE SegRank(Head(a)) < SegRank(Head(b))

RECURSIVE SortedNamespaces(_)
SortedNamespaces(S) ==
    IF S = {} THEN <<>>
    ELSE LET least == CHOOSE x \in S : \A y \in S \ {x} : NamespaceLess(x, y)
         IN <<least>> \o SortedNamespaces(S \ {least})

\* the reference listing: the namespaces of the records under the prefix,
\* those ending in the suffix, cut to max_depth segments, sorted, paged
ReferenceListing(coll, prefix, suffix, max_depth, limit, offset) ==
    LET namespaces == {d.namespace : d \in {x \in coll : namespace_prefix_query(x, prefix)}}
        kept == {ns \in namespaces :
                    /\ Len(ns) >= Len(suffix)
                    /\ SubSeq(ns, Len(ns) - Len(suffix) + 1, Len(ns)) = suffix}
        cut == IF max_depth # <<>>
               THEN {SubSeq(ns, 1, IF max_depth[1] < Len(ns) THEN max_depth[1] ELSE Len(ns)) :
                        ns \in kept}
               ELSE kept
        sorted == SortedNamespaces(cut)
    IN SubSeq(sorted, offset + 1,
              IF offset + limit < Len(sorted) THEN offset + limit ELSE Len(sorted))

\* C18: list_namespaces returns the reference listing of the stored records.
C18_ListIsReference ==
    last.kind = "list_namespaces" =>
        last.res = ReferenceListing(collection, last.ns, last.arg.suffix,
                                    last.arg.max_depth, last.arg.limit, last.arg.offset)

\* ---------------------------------------------------------------------------
\* Properties of the non-blocking forms
\* ---------------------------------------------------------------------------
AsyncForms == {"abatch", "aget", "asearch", "aput", "adelete", "alist_namespaces"}

\* what the blocking form does when called with the arguments of the pending
\* call on the present store
BlockingOutcome(form, ns, key, a) ==
    CASE form = "abatch" ->
            LET r == BatchEff(cfg, vindex, St, a.ops, now) IN Outcome(r, r.raised)
      [] form = "aget" -> Outcome(GetEff(cfg, St, ns, key, a.refresh_ttl, now), FALSE)
      [] form = "asearch" ->
            LET r == SearchEff(cfg, St, vindex, ns, a.query, a.filter, a.limit, a.offset,
                               a.refresh_ttl, now, a.orc)
            IN Outcome(r, r.raised)
      [] form = "aput" ->
            Outcome(PutEff(cfg, St, ns, key, a.value, a.index, a.ttl, now), FALSE)
      [] form = "adelete" -> Outcome(DeleteEff(St, ns, key), FALSE)
      [] form = "alist_namespaces" ->
            Outcome(ListEff(St, ns, a.suffix, a.max_depth, a.limit, a.offset), FALSE)

\* C19: a non-blocking call changes nothing while it is pending, resolves in
\* one step with the result or the exception and the store of the blocking
\* form called with its arguments, and resolves once.
C19_AsyncIsBlocking ==
    [][/\ last'.kind = "pending" => UNCHANGED <<collection, uuids>>
       /\ last.kind = "pending" =>
             /\ last'.kind = last.arg.form
             /\ last'.ns = last.ns /\ last'.key = last.key /\ last'.arg = last.arg
             /\ [coll |-> collection', n |-> uuids', res |-> last'.res,
                 raised |-> last'.raised]
                  = BlockingOutcome(last.arg.form, last.ns, last.key, last.arg.a)
       /\ last'.kind \in AsyncForms => last.kind = "pending"
       /\ last.kind \in AsyncForms =>
             last' = NoCall /\ UNCHANGED <<collection, uuids>>]_vars

\* C19 happens: aput resolved after storing the expiration its ttl asks for,
\* next to a record stored earlier
C19_Witness ==
    /\ last.kind = "aput"
    /\ last.arg.a.ttl = TtlMinutes(1)
    /\ Cardinality(collection) = 2
    /\ \E d \in collection : d.key = Uuid(uuids) /\ d.expiration = ExpAt(now + 1)

\* ---------------------------------------------------------------------------
\* Properties of concurrent puts
\* ---------------------------------------------------------------------------
\* the callers whose put() has built its doc and not yet inserted it
Building == {caller \in Callers : inflight[caller].pc = "built"}

\* C20: under every interleaving of concurrent puts, the insert of a put adds
\* exactly the record that put built, no step removes or replaces a stored
\* record, and the store holds one record per put that has inserted, the
\* record of every completed put among them.
C20_ConcurrentPutsAllStored ==
    [][/\ collection \subseteq collection'
       /\ \A caller \in Callers :
             inflight[caller].pc = "built" /\ inflight'[caller].pc = "done" =>
                /\ inflight[caller].doc[1] \notin collection
                /\ collection' = collection \cup {inflight[caller].doc[1]}
       /\ Cardinality(collection') = uuids' - Cardinality(Building')
       /\ \A caller \in Callers :
             inflight'[caller].pc = "done" => inflight'[caller].doc[1] \in collection'
       /\ \A d, e \in collection' : d.key = e.key => d = e]_vars

\* C20 happens: two callers put different values under the same namespace and
\* logical key at the same time, and both records are stored
C20_Witness ==
    /\ \A caller \in {1, 2} : inflight[caller].pc = "done"
    /\ inflight[1].doc[1].value # inflight[2].doc[1].value
    /\ inflight[1].doc[1].logical_key = inflight[2].doc[1].logical_key
    /\ inflight[1].doc[1].namespace = inflight[2].doc[1].namespace
    /\ {inflight[1].doc[1], inflight[2].doc[1]} \subseteq collection
    /\ Cardinality(collection) = 2

\* ---------------------------------------------------------------------------
\* Properties of the refresh of expirations
\* ---------------------------------------------------------------------------
\* C21: after a semantic search with refresh_ttl on a store with TTL support,
\* every returned record that has an expiration holds the time of the search
\* plus the refresh window as its expiration.
C21_SearchRefreshesReturned ==
    /\ last.kind = "search"
    /\ semantic_enabled(cfg)
    /\ cfg.ttl_support
    /\ last.arg.refresh_ttl
    /\ ~last.raised
    => \A i \in 1..Len(last.ids) :
          ExpTruthy(RecordOf(last.ids[i]).expiration) =>
              RecordOf(last.ids[i]).expiration = ExpAt(now + RefreshWindow)

GetStep == last.kind = "none" /\ last'.kind = "get"

\* the records a get of (ns, key) finds
FoundBy(ns, key) == {d \in collection : d.namespace = ns /\ d.key = key}

\* C22: a get with refresh_ttl on a store with TTL support that finds a record
\* with an expiration sets the expiration of that one record to the time of
\* the get plus the refresh window and changes nothing else; every other get
\* leaves the store as it was.
C22_GetFrame ==
    [][GetStep =>
        LET found == FoundBy(last'.ns, last'.key)
        IN /\ uuids' = uuids
           /\ IF /\ last'.arg.refresh_ttl
                 /\ cfg.ttl_support
                 /\ \E d \in found : ExpTruthy(d.expiration)
              THEN /\ Cardinality(found) = 1
                   /\ collection' =
                        (collection \ found)
                        \cup {[d EXCEPT !.expiration = ExpAt(now + RefreshWindow)] :
                                 d \in found}
              ELSE collection' = collection]_vars

\* C22 happens: a get refreshed the expiration of the record it found, next
\* to a record whose expiration is the one its put stored
C22_Witness ==
    /\ last.kind = "get"
    /\ last.arg.refresh_ttl
    /\ cfg.ttl_support
    /\ Len(last.res) = 1
    /\ \E d \in collection :
          /\ d.key = last.key
          /\ d.expiration = ExpAt(now + RefreshWindow)
    /\ \E e \in collection :
          /\ e.key # last.key
          /\ e.expiration = ExpAt(e.created + 1)

\* ---------------------------------------------------------------------------
\* Properties of stored records
\* ---------------------------------------------------------------------------
\* the fields of a record other than its expiration
Immutable(d) ==
    [namespace |-> d.namespace, key |-> d.key, logical_key |-> d.logical_key,
     value |-> d.value, created |-> d.created, indexed |-> d.indexed,
     embedding |-> d.embedding]

\* C23: a record that a step leaves in the store keeps its namespace, storage
\* key, logical key, value, creation time and embedding; a step changes at
\* most the expiration of a stored record.
C23_OnlyExpirationChanges ==
    [][\A d \in collection : \A e \in collection' :
          e.key = d.key => Immutable(e) = Immutable(d)]_vars

\* C23 happens: a get changed the expiration of a record that was stored at
\* an earlier time
C23_Witness ==
    /\ last.kind = "get"
    /\ last.arg.refresh_ttl
    /\ now >= 1
    /\ \E d \in collection :
          /\ d.key = last.key
          /\ d.created < now
          /\ d.expiration = ExpAt(now + RefreshWindow)

\* ---------------------------------------------------------------------------
\* Properties of put's index argument, namespaces and failures
\* ---------------------------------------------------------------------------
\* the text the field paths listed in a put's index argument extract from its value
ListedText(value, index) == get_text_at_path(value, index.fields)

\* C24: after a put whose index argument lists field paths, on a store with
\* semantic search enabled, the record it stored has the embedding of the text
\* the listed paths extract from its value, and none when that text is blank.
C24_ListedFieldsDecideEmbedding ==
    (last.kind = "put" /\ last.arg.index.st = "fields" /\ semantic_enabled(cfg)) =>
        \A d \in collection :
            d.key = Uuid(uuids) =>
                d.embedding =
                    (IF Strip(ListedText(last.arg.value, last.arg.index)) # <<>>
                     THEN <<Embed(ListedText(last.arg.value, last.arg.index))>>
                     ELSE <<>>)

\* C25: no stored record has a namespace with an empty segment.
C25_NoEmptySegment ==
    \A d \in collection : \A i \in 1..Len(d.namespace) : d.namespace[i] # ""

FailedPutStep ==
    /\ last.kind = "none" /\ last'.kind = "put"
    /\ \/ last'.arg.fault = "insert"
       \/ /\ last'.arg.fault = "embed"
          /\ last'.arg.index.st # "false"
          /\ semantic_enabled(cfg)
          /\ HasIndexableText(last'.arg.value)

\* C26: a put in which the embedding function is called and raises, or in
\* which the insert fails, raises to its caller and leaves the collection and
\* the vector index as they were, so that get, search and list_namespaces
\* answer as before the call.
C26_FailedPutLeavesStore ==
    [][FailedPutStep =>
          /\ last'.raised
          /\ collection' = collection
          /\ vindex' = vindex]_vars

\* C26 happens: a put with text to embed raised from the embedding function
\* on a store that holds a record
C26_Witness ==
    /\ last.kind = "put"
    /\ last.arg.fault = "embed"
    /\ last.raised
    /\ HasIndexableText(last.arg.value)
    /\ collection # {}

\* ---------------------------------------------------------------------------
\* Properties of paging and of the keys of returned items
\* ---------------------------------------------------------------------------
\* the records the vector index holds that match the last search's namespace
\* prefix and filter
IndexedMatching ==
    {d \in collection : /\ d.key \in vindex
                        /\ d.embedding # <<>>
                        /\ PrefixFilterMatch(d, last.ns, last.arg.filter)}

\* the keys at positions offset+1 .. offset+limit of a ranking
PageOf(ranking, limit, offset) == [i \in 1..limit |-> ranking[offset + i].key]

\* C27: when the backend answers the search's queries and the vector index
\* holds at least offset + limit records matching the namespace prefix and the
\* filter, a
\* semantic search returns limit records, those at positions offset+1 ..
\* offset+limit of their ranking by similarity to the query (equally similar
\* records ranked in some order; the order within the page is left open).
C27_PagingAfterRanking ==
    (/\ last.kind = "search"
     /\ semantic_enabled(cfg)
     /\ ~last.arg.fail
     /\ ~last.raised
     /\ Cardinality(IndexedMatching) >= last.arg.offset + last.arg.limit)
    => /\ Len(last.ids) = last.arg.limit
       /\ \E ord \in Perms(IssuedKeys) :
             SeqToSet(last.ids) =
                 SeqToSet(PageOf(SortDesc(IndexedMatching,
                                          SearchScores(collection, Embed(last.arg.query)),
                                          ord),
                                 last.arg.limit, last.arg.offset))

\* C28: every item a search returns, and the item a get returns, has as its
\* key the logical key of the stored record it was made from.
C28_ItemsCarryLogicalKey ==
    /\ last.kind = "search" =>
           \A i \in 1..Len(last.res) :
               last.res[i].key = RecordOf(last.ids[i]).logical_key[1]
    /\ (last.kind = "get" /\ last.res # <<>>) =>
           \E d \in collection :
               /\ d.namespace = last.ns
               /\ d.key = last.key
               /\ last.res[1].key = d.logical_key[1]

====
